---- MODULE Spec2Model ----
(***************************************************************************)
(* Model of vnpy_mcdata: the MultiCharts datafeed adapter McdataDatafeed   *)
(* (lazy init, chunked query_bar_history) and the symbol translation       *)
(* to_mc_symbol, from src/vnpy_mcdata/mcdata_datafeed.py.                  *)
(*                                                                         *)
(* Python strings are sequences of one-character strings, so that slicing, *)
(* str.replace, str.index and str.endswith are computed as Python does.    *)
(***************************************************************************)
EXTENDS Integers, Sequences, FiniteSets, TLC

VARIABLES
    inited,             \* self.inited
    api,                \* self.api: 0 is None, n > 0 the n-th TCoreAPI instance
    pc,                 \* "idle" | "loop" | "convert" | "returned": where the call stands
    req,                \* the HistoryRequest of the current / last query
    mc_symbol,          \* local mc_symbol of query_bar_history
    query_start,        \* local query_start (the chunk cursor)
    all_quote_history,  \* local all_quote_history
    calls,              \* getquotehistory calls issued by the current / last query
    outputs,            \* messages passed to output() by the current / last call
    ret,                \* how the last call ended: its return value or an exception
    last_call,          \* which entry point ran last, and what it found and did
    replies,            \* what getquotehistory returned to the current / last query
    connected,          \* a connect() of this adapter has returned normally
    vt_symbol,          \* input of the last to_mc_symbol evaluation
    translated          \* its result

vars == <<inited, api, pc, req, mc_symbol, query_start, all_quote_history,
          calls, outputs, ret, last_call, replies, connected, vt_symbol,
          translated>>

(***************************************************************************)
(* Python str primitives                                                   *)
(***************************************************************************)
DigitChars == {"0", "1", "2", "3", "4", "5", "6", "7", "8", "9"}

\* str.isdigit() of one character
isdigit(w) == w \in DigitChars

\* int(c) of a one-character string of a decimal digit
DigitVal(c) ==
    CASE c = "0" -> 0 [] c = "1" -> 1 [] c = "2" -> 2 [] c = "3" -> 3
      [] c = "4" -> 4 [] c = "5" -> 5 [] c = "6" -> 6 [] c = "7" -> 7
      [] c = "8" -> 8 [] c = "9" -> 9

Min(a, b) == IF a <= b THEN a ELSE b

\* s[i:] for i >= 0
SliceFrom(s, i) == SubSeq(s, i + 1, Len(s))

\* s[:j] for j >= 0
SliceTo(s, j) == SubSeq(s, 1, Min(j, Len(s)))

\* s[-2:]
LastTwo(s) == IF Len(s) <= 2 THEN s ELSE SubSeq(s, Len(s) - 1, Len(s))

\* s.startswith(p)
StartsWith(s, p) == Len(p) <= Len(s) /\ SubSeq(s, 1, Len(p)) = p

\* s.endswith(p)
EndsWith(s, p) ==
    Len(p) <= Len(s) /\ SubSeq(s, Len(s) - Len(p) + 1, Len(s)) = p

\* s.find(p): the 0-based index of the first occurrence of p in s, or -1
RECURSIVE FindFrom(_, _, _)
FindFrom(s, p, i) ==
    IF i + Len(p) > Len(s) THEN -1
    ELSE IF SubSeq(s, i + 1, i + Len(p)) = p THEN i
    ELSE FindFrom(s, p, i + 1)

Find(s, p) == FindFrom(s, p, 0)

\* p in s
Contains(s, p) == Find(s, p) >= 0

\* s.replace(old, ""): every non-overlapping occurrence of old, found left
\* to right, is removed; an empty old leaves s as it is.
RECURSIVE Replace(_, _)
Replace(s, old) ==
    IF old = << >> \/ Len(s) < Len(old) THEN s
    ELSE IF StartsWith(s, old) THEN Replace(SliceFrom(s, Len(old)), old)
    ELSE <<Head(s)>> \o Replace(Tail(s), old)

(***************************************************************************)
(* Exchanges                                                               *)
(***************************************************************************)
\* Exchange.value, as a string of characters
ExchangeValue(e) ==
    CASE e = "CFFEX" -> <<"C", "F", "F", "E", "X">>
      [] e = "SHFE"  -> <<"S", "H", "F", "E">>
      [] e = "CZCE"  -> <<"C", "Z", "C", "E">>
      [] e = "DCE"   -> <<"D", "C", "E">>
      [] e = "INE"   -> <<"I", "N", "E">>
      [] e = "GFEX"  -> <<"G", "F", "E", "X">>
      [] e = "SSE"   -> <<"S", "S", "E">>
      [] e = "SZSE"  -> <<"S", "Z", "S", "E">>

\* the exchanges of EXCHANGE_MC2VT
EXCHANGE_MC2VT == {"CFFEX", "SHFE", "CZCE", "DCE", "INE", "GFEX", "SSE", "SZSE"}

\* a mutant of FuturesExchanges: an equity exchange slipped into the set
FuturesExchangesWithSSE == {"CFFEX", "SHFE", "CZCE", "DCE", "INE", "GFEX", "SSE"}

\* the exchanges to_mc_symbol translates
FuturesExchanges == {"CFFEX", "SHFE", "CZCE", "DCE", "INE", "GFEX"}

(***************************************************************************)
(* to_mc_symbol and its helpers                                            *)
(***************************************************************************)
\* the result of a call that ends in an exception; its one element is no
\* character, so it is none of the strings the code can build
Raised == <<"<exception>">>

\* get_product: the leading non-digit characters
RECURSIVE get_product(_)
get_product(symbol) ==
    IF symbol = << >> \/ isdigit(Head(symbol)) THEN << >>
    ELSE <<Head(symbol)>> \o get_product(Tail(symbol))

PerpetualSuffixes ==
    << <<"H", "O", "T">>,
       <<"H", "O", "T", "/", "Q">>,
       <<"H", "O", "T", "/", "H">>,
       <<"0", "0", "0", "0", "0", "0">> >>

\* check_perpetual: the first suffix of the list the symbol ends with, or ""
RECURSIVE CheckPerpetualFrom(_, _)
CheckPerpetualFrom(symbol, i) ==
    IF i > Len(PerpetualSuffixes) THEN << >>
    ELSE IF EndsWith(symbol, PerpetualSuffixes[i]) THEN PerpetualSuffixes[i]
    ELSE CheckPerpetualFrom(symbol, i + 1)

check_perpetual(symbol) == CheckPerpetualFrom(symbol, 1)

\* a mutant of ResolveYear: the decade boundary off by one
ResolveYearStrict(year) ==
    IF Len(year) = 1
    THEN IF ~isdigit(year[1]) THEN Raised
         ELSE IF DigitVal(year[1]) < 5 THEN <<"2">> \o year
         ELSE <<"1">> \o year
    ELSE year

\* the single-digit year rule; int(year) of a non-digit raises ValueError
ResolveYear(year) ==
    IF Len(year) = 1
    THEN IF ~isdigit(year[1]) THEN Raised
         ELSE IF DigitVal(year[1]) <= 5 THEN <<"2">> \o year
         ELSE <<"1">> \o year
    ELSE year

TC_F == <<"T", "C", ".", "F", ".">>
TC_O == <<"T", "C", ".", "O", ".">>
Dot == <<".">>

\* the outright branch: month, year and the composed code
FuturesOutright(symbol, exchange) ==
    LET product == get_product(symbol)
        month   == LastTwo(symbol)
        year    == ResolveYear(Replace(Replace(symbol, product), month))
    IN  IF year = Raised THEN Raised
        ELSE TC_F \o ExchangeValue(exchange) \o Dot \o product \o Dot
                  \o <<"2", "0">> \o year \o month

\* the continuous-contract branch
FuturesPerpetual(symbol, exchange, suffix) ==
    TC_F \o ExchangeValue(exchange) \o Dot \o Replace(symbol, suffix)
         \o Dot \o suffix

\* the option branch; a name read before it was bound raises UnboundLocalError
FuturesOption(symbol, exchange) ==
    LET product == get_product(symbol)
        left    == Replace(symbol, product)
        dash    == Contains(left, <<"-">>)
        option_type ==
            IF dash
            THEN IF Contains(left, <<"-", "C", "-">>) THEN <<"C">>
                 ELSE IF Contains(left, <<"-", "P", "-">>) THEN <<"P">>
                 ELSE Raised
            ELSE IF Contains(left, <<"C">>) THEN <<"C">>
                 ELSE IF Contains(left, <<"P">>) THEN <<"P">>
                 ELSE Raised
        time_end ==
            IF dash THEN Find(left, <<"-">>) - 1
            ELSE IF Contains(left, <<"C">>) THEN Find(left, <<"C">>) - 1
            ELSE Find(left, <<"P">>) - 1
        strike_start == IF dash THEN time_end + 4 ELSE time_end + 2
        strike   == SliceFrom(left, strike_start)
        time_str == SliceTo(left, time_end + 1)
        month    == LastTwo(time_str)
        year     == ResolveYear(Replace(time_str, month))
    IN  IF option_type = Raised \/ year = Raised THEN Raised
        ELSE TC_O \o ExchangeValue(exchange) \o Dot \o product \o Dot
                  \o <<"2", "0">> \o year \o month \o Dot \o option_type
                  \o Dot \o strike

\* extract_vt_symbol: a vt_symbol is modelled as the pair it is split into
extract_vt_symbol(v) == v

\* to_mc_symbol; lru_cache memoizes a pure function and changes no result
to_mc_symbol(v) ==
    LET symbol   == extract_vt_symbol(v)[1]
        exchange == extract_vt_symbol(v)[2]
    IN  IF exchange \in FuturesExchanges
        THEN IF Len(symbol) <= 8
             THEN IF check_perpetual(symbol) # << >>
                  THEN FuturesPerpetual(symbol, exchange, check_perpetual(symbol))
                  ELSE FuturesOutright(symbol, exchange)
             ELSE FuturesOption(symbol, exchange)
        ELSE << >>

(***************************************************************************)
(* datetime, timedelta and strftime                                        *)
(***************************************************************************)
\* a datetime is [y, mo, d, H, M, S, tzinfo]; tzinfo "None" is a naive one
DateTime(y, mo, d, H, M, S) ==
    [y |-> y, mo |-> mo, d |-> d, H |-> H, M |-> M, S |-> S, tzinfo |-> "None"]

IsLeap(y) == (y % 4 = 0 /\ y % 100 # 0) \/ y % 400 = 0

DaysInMonth(y, mo) ==
    IF mo = 2 THEN (IF IsLeap(y) THEN 29 ELSE 28)
    ELSE IF mo \in {4, 6, 9, 11} THEN 30 ELSE 31

\* dt + timedelta(days=1)
AddDay(dt) ==
    IF dt.d < DaysInMonth(dt.y, dt.mo) THEN [dt EXCEPT !.d = dt.d + 1]
    ELSE IF dt.mo < 12 THEN [dt EXCEPT !.d = 1, !.mo = dt.mo + 1]
    ELSE [dt EXCEPT !.d = 1, !.mo = 1, !.y = dt.y + 1]

\* dt - timedelta(days=1)
SubDay(dt) ==
    IF dt.d > 1 THEN [dt EXCEPT !.d = dt.d - 1]
    ELSE IF dt.mo > 1
         THEN [dt EXCEPT !.d = DaysInMonth(dt.y, dt.mo - 1), !.mo = dt.mo - 1]
    ELSE [dt EXCEPT !.d = 31, !.mo = 12, !.y = dt.y - 1]

RECURSIVE AddDays(_, _)
AddDays(dt, n) == IF n = 0 THEN dt ELSE AddDays(AddDay(dt), n - 1)

\* dt - timedelta(minutes=m), for 0 <= m <= 1440
SubMinutes(dt, m) ==
    LET t == dt.H * 60 + dt.M - m
    IN  IF t >= 0 THEN [dt EXCEPT !.H = t \div 60, !.M = t % 60]
        ELSE [SubDay(dt) EXCEPT !.H = (t + 1440) \div 60, !.M = (t + 1440) % 60]

\* the order of dt.date(): year, then month, then day
DateOrd(dt) == dt.y * 10000 + dt.mo * 100 + dt.d

\* a <= b on naive datetimes
DateTimeLE(a, b) ==
    \/ DateOrd(a) < DateOrd(b)
    \/ /\ DateOrd(a) = DateOrd(b)
       /\ a.H * 3600 + a.M * 60 + a.S <= b.H * 3600 + b.M * 60 + b.S

\* dt.strftime("%Y%m%d%H"): ten zero-padded digits, read as a number; the
\* minute and the second are dropped
strftime(dt) == dt.y * 1000000 + dt.mo * 10000 + dt.d * 100 + dt.H

(***************************************************************************)
(* Interval tables                                                         *)
(***************************************************************************)
\* the members of Interval (vnpy.trader.constant)
Intervals == {"MINUTE", "HOUR", "DAILY", "WEEKLY", "TICK"}

\* INTERVAL_VT2MC.get(interval, ("", "")): (mc_interval, mc_window)
INTERVAL_VT2MC(interval) ==
    CASE interval = "MINUTE" -> <<"BarType.MINUTE", 1>>
      [] interval = "HOUR"   -> <<"BarType.MINUTE", 60>>
      [] interval = "DAILY"  -> <<"BarType.DK", 1>>
      [] OTHER               -> <<"", "">>

\* INTERVAL_ADJUSTMENT_MAP[interval], a timedelta in minutes
INTERVAL_ADJUSTMENT_MAP(interval) ==
    CASE interval = "MINUTE" -> 1
      [] interval = "HOUR"   -> 60
      [] interval = "DAILY"  -> 0

CHINA_TZ == "Asia/Shanghai"

(***************************************************************************)
(* Bounds and the inputs drawn from them                                   *)
(***************************************************************************)
\* a request's start and end lie 0..MaxSpan days after a base date
MaxSpan == 2

\* TCoreAPI instances one adapter creates (one per connection attempt)
MaxClients == 2

BaseDates ==
    { DateTime(2023, 12, 30, 0, 0, 0), DateTime(2024, 2, 28, 0, 0, 0) }

StartTimes == { <<9, 0>>, <<21, 30>> }
EndTimes == { <<15, 0>> }

At(date, hm) == [date EXCEPT !.H = hm[1], !.M = hm[2]]

\* the symbols queried: an outright, a single-digit-year outright, a
\* continuous contract, an option, and an equity
QuerySymbols ==
    { << <<"r", "b", "2", "4", "1", "0">>, "SHFE" >>,
      << <<"M", "A", "4", "1", "2">>, "CZCE" >>,
      << <<"r", "b", "H", "O", "T">>, "SHFE" >>,
      << <<"I", "O", "2", "4", "1", "0", "-", "C", "-", "4", "0", "0", "0">>, "CFFEX" >>,
      << <<"6", "0", "0", "0", "0", "0">>, "SSE" >>,
      << <<"0", "0", "0", "0", "0", "1">>, "SZSE" >> }

QueryIntervals == {"MINUTE", "HOUR", "DAILY", "WEEKLY"}

\* HistoryRequest: symbol, exchange, interval, start, end; vt_symbol is
\* derived from symbol and exchange
Requests ==
    { [symbol |-> v[1], exchange |-> v[2], interval |-> i,
       start |-> At(AddDays(b, so), st), end |-> At(AddDays(b, eo), et)] :
        v \in QuerySymbols, i \in QueryIntervals, b \in BaseDates,
        so \in 0..MaxSpan, eo \in 0..MaxSpan, st \in StartTimes, et \in EndTimes }

NoRequest ==
    [symbol |-> << >>, exchange |-> "", interval |-> "",
     start |-> DateTime(0, 0, 0, 0, 0, 0), end |-> DateTime(0, 0, 0, 0, 0, 0)]

req_vt_symbol(r) == <<r.symbol, r.exchange>>

\* rows of the terminal: DateTime, Open, High, Low, Close, Volume, OpenInterest
Row(dt, o, h, l, c, v, oi) ==
    [DateTime |-> dt, Open |-> o, High |-> h, Low |-> l, Close |-> c,
     Volume |-> v, OpenInterest |-> oi]

RowA == Row(DateTime(2024, 1, 2, 15, 0, 0), 10, 12, 9, 11, 100, 50)
RowB == Row(DateTime(2024, 3, 1, 0, 0, 30), 20, 22, 19, 21, 200, 60)

\* what getquotehistory returns: None, or a list of rows
Reply(none, rows) == [none |-> none, rows |-> rows]

\* the replies drawn: None, no rows, one row, two rows out of time order
VendorReplies ==
    { Reply(TRUE, << >>), Reply(FALSE, << >>), Reply(FALSE, <<RowA>>),
      Reply(FALSE, <<RowB, RowA>>) }

\* the outcomes of TCoreAPI(...).connect(): it returns, or it raises
ConnectOutcomes == {"connected", "raises"}

\* the outcomes a call can meet: connect() is reached only if not inited
Outcomes(i) == IF i THEN {"none"} ELSE ConnectOutcomes

(***************************************************************************)
(* Results of a call                                                       *)
(***************************************************************************)
NoResult      == [kind |-> "none", flag |-> FALSE, bars |-> << >>]
ReturnBool(b) == [kind |-> "bool", flag |-> b, bars |-> << >>]
ReturnList(l) == [kind |-> "list", flag |-> FALSE, bars |-> l]
Exception     == [kind |-> "exception", flag |-> FALSE, bars |-> << >>]

\* an f-string passed to output(): its fixed text and the values it embeds
Message(text, args) == [text |-> text, args |-> args]

Call(mc_interval, mc_window, symbol, start, end) ==
    [interval |-> mc_interval, window |-> mc_window, symbol |-> symbol,
     start |-> start, end |-> end]

(***************************************************************************)
(* McdataDatafeed.init                                                     *)
(***************************************************************************)
\* a mutant of InitedAfterConnect: the flag set before connect() is called
InitedBeforeConnect(outcome) == TRUE

\* self.inited after lines 64-68: line 68 runs only if connect() returned
InitedAfterConnect(outcome) == outcome = "connected"

\* init(): the new self.inited and self.api, what it returns, and whether
\* it called connect()
init_result(i, a, outcome) ==
    IF i
    THEN [inited |-> TRUE, api |-> a, ret |-> ReturnBool(TRUE), attempted |-> FALSE]
    ELSE [inited |-> InitedAfterConnect(outcome), api |-> a + 1,
          ret |-> IF outcome = "connected" THEN ReturnBool(TRUE) ELSE Exception,
          attempted |-> TRUE]

LastCall(op, n, outcome) ==
    [op |-> op, inited_before |-> inited, api_before |-> api,
     connected_before |-> connected, attempted |-> n.attempted,
     outcome |-> IF n.attempted THEN outcome ELSE "none"]

\* whether the terminal holds a session of this adapter after init()
ConnectedAfter(n, outcome) == connected \/ (n.attempted /\ outcome = "connected")

\* a call of init() by the host
init ==
    /\ pc = "idle"
    /\ \E outcome \in Outcomes(inited) :
         LET n == init_result(inited, api, outcome)
         IN  /\ n.api <= MaxClients
             /\ inited' = n.inited
             /\ api' = n.api
             /\ ret' = n.ret
             /\ last_call' = LastCall("init", n, outcome)
             /\ connected' = ConnectedAfter(n, outcome)
    /\ pc' = "returned"
    /\ UNCHANGED <<req, mc_symbol, query_start, all_quote_history, calls,
                   outputs, replies, vt_symbol, translated>>

(***************************************************************************)
(* McdataDatafeed.query_bar_history                                        *)
(***************************************************************************)
\* a finished call leaves the locals of the query cleared
ClearLocals ==
    /\ mc_symbol' = << >>
    /\ query_start' = NoRequest.start
    /\ all_quote_history' = << >>

\* lines 73-95: lazy init, the symbol and interval checks, and the entry
\* into the chunk loop
query_bar_history ==
    /\ pc = "idle"
    /\ \E r \in Requests, outcome \in Outcomes(inited) :
         LET n  == init_result(inited, api, outcome)
             mc == to_mc_symbol(req_vt_symbol(r))
             mc_interval == INTERVAL_VT2MC(r.interval)[1]
         IN  /\ n.api <= MaxClients
             /\ req' = r
             /\ inited' = n.inited
             /\ api' = n.api
             /\ last_call' = LastCall("query_bar_history", n, outcome)
             /\ connected' = ConnectedAfter(n, outcome)
             /\ IF n.ret.kind = "exception"
                THEN \* connect() raised inside init(): the exception propagates
                     /\ ret' = Exception
                     /\ outputs' = << >>
                     /\ pc' = "returned"
                     /\ ClearLocals
                ELSE IF ~n.ret.flag
                THEN \* lines 75-76
                     /\ ret' = ReturnList(<< >>)
                     /\ outputs' = << >>
                     /\ pc' = "returned"
                     /\ ClearLocals
                ELSE IF mc = Raised
                THEN /\ ret' = Exception
                     /\ outputs' = << >>
                     /\ pc' = "returned"
                     /\ ClearLocals
                ELSE IF mc = << >>
                THEN \* lines 80-82
                     /\ ret' = ReturnList(<< >>)
                     /\ outputs' = << Message("unsupported symbol", <<req_vt_symbol(r)>>) >>
                     /\ pc' = "returned"
                     /\ ClearLocals
                ELSE IF mc_interval = ""
                THEN \* lines 86-88
                     /\ ret' = ReturnList(<< >>)
                     /\ outputs' = << Message("unsupported interval", <<r.interval>>) >>
                     /\ pc' = "returned"
                     /\ ClearLocals
                ELSE \* lines 91-95
                     /\ ret' = NoResult
                     /\ outputs' = << >>
                     /\ pc' = "loop"
                     /\ mc_symbol' = mc
                     /\ query_start' = r.start
                     /\ all_quote_history' = << >>
    /\ UNCHANGED <<calls, replies, vt_symbol, translated>>

\* a mutant of LoopCondition: the end day left out
LoopConditionStrict(qs, end) == DateOrd(qs) < DateOrd(end)

\* line 97: query_start.date() <= req.end.date()
LoopCondition(qs, end) == DateOrd(qs) <= DateOrd(end)

\* a mutant of SingleCall: HOUR requests chunked by day
SingleCallDailyOnly(interval) == interval \in {"DAILY"}

\* line 98: req.interval in [Interval.DAILY, Interval.HOUR]
SingleCall(interval) == interval \in {"DAILY", "HOUR"}

\* lines 107, 123: if quote_history
Truthy(reply) == ~reply.none /\ reply.rows # << >>

\* a mutant of Extend: the newest chunk put first
ExtendFront(all, rows) == rows \o all

\* lines 108, 124: all_quote_history.extend(quote_history)
Extend(all, rows) == all \o rows

\* lines 97-127: one pass of the while loop, the terminal's reply included
query_loop ==
    /\ pc = "loop"
    /\ LoopCondition(query_start, req.end)
    /\ \E quote_history \in VendorReplies :
         LET mc_interval == INTERVAL_VT2MC(req.interval)[1]
             mc_window   == INTERVAL_VT2MC(req.interval)[2]
             query_end   == AddDay(query_start)
         IN  /\ replies' = Append(replies, quote_history)
             /\ all_quote_history' =
                    IF Truthy(quote_history)
                    THEN Extend(all_quote_history, quote_history.rows)
                    ELSE all_quote_history
             /\ IF SingleCall(req.interval)
                THEN \* lines 99-109: one call over the whole range, then break
                     /\ calls' = Append(calls,
                            Call(mc_interval, mc_window, mc_symbol,
                                 strftime(req.start), strftime(req.end)))
                     /\ pc' = "convert"
                     /\ UNCHANGED query_start
                ELSE \* lines 111-127: one call over the day after the cursor
                     /\ calls' = Append(calls,
                            Call(mc_interval, mc_window, mc_symbol,
                                 strftime(query_start), strftime(query_end)))
                     /\ query_start' = query_end
                     /\ UNCHANGED pc
    /\ UNCHANGED <<inited, api, req, mc_symbol, outputs, ret, last_call,
                   connected, vt_symbol, translated>>

\* lines 138-140: the bar's datetime
Normalize(interval, dt) ==
    LET shifted == [SubMinutes(dt, INTERVAL_ADJUSTMENT_MAP(interval))
                        EXCEPT !.tzinfo = CHINA_TZ]
    IN  IF interval = "DAILY" THEN [shifted EXCEPT !.H = 0, !.M = 0]
        ELSE shifted

\* lines 142-154: BarData
BarData(r, history) ==
    [symbol |-> r.symbol, exchange |-> r.exchange, interval |-> r.interval,
     datetime |-> Normalize(r.interval, history.DateTime),
     open_price |-> history.Open, high_price |-> history.High,
     low_price |-> history.Low, close_price |-> history.Close,
     volume |-> history.Volume, open_interest |-> history.OpenInterest,
     gateway_name |-> "MCDATA"]

\* a mutant of HistoryEmpty: the failure branch never taken
HistoryEmptyNever(all) == FALSE

\* line 130: not all_quote_history
HistoryEmpty(all) == all = << >>

\* lines 129-157, once the loop has ended: the failure message, or the bars
query_return ==
    /\ \/ pc = "convert"
       \/ pc = "loop" /\ ~LoopCondition(query_start, req.end)
    /\ IF HistoryEmpty(all_quote_history)
       THEN /\ outputs' = Append(outputs,
                   Message("history failed", <<req.symbol, req.start, req.end>>))
            /\ ret' = ReturnList(<< >>)
       ELSE /\ ret' = ReturnList([k \in 1..Len(all_quote_history) |->
                                     BarData(req, all_quote_history[k])])
            /\ UNCHANGED outputs
    /\ pc' = "returned"
    /\ ClearLocals
    /\ UNCHANGED <<inited, api, req, calls, last_call, replies, connected,
                   vt_symbol, translated>>

\* query_tick_history: returns [] and touches nothing
query_tick_history ==
    /\ pc = "idle"
    /\ ret' = ReturnList(<< >>)
    /\ last_call' = [op |-> "query_tick_history", inited_before |-> inited,
                     api_before |-> api, connected_before |-> connected,
                     attempted |-> FALSE, outcome |-> "none"]
    /\ pc' = "returned"
    /\ UNCHANGED <<inited, api, req, mc_symbol, query_start, all_quote_history,
                   calls, outputs, replies, connected, vt_symbol, translated>>

NoCall ==
    [op |-> "", inited_before |-> FALSE, api_before |-> 0,
     connected_before |-> FALSE, attempted |-> FALSE, outcome |-> "none"]

\* the caller takes the returned value (or the exception); the frame of the
\* call, with what it issued and printed, is gone and the adapter is free
\* for the next call
call_returns ==
    /\ pc = "returned"
    /\ pc' = "idle"
    /\ req' = NoRequest
    /\ calls' = << >>
    /\ outputs' = << >>
    /\ ret' = NoResult
    /\ last_call' = NoCall
    /\ replies' = << >>
    /\ UNCHANGED <<inited, api, mc_symbol, query_start, all_quote_history,
                   connected, vt_symbol, translated>>

(***************************************************************************)
(* The adapter: construction and its entry points                          *)
(***************************************************************************)
NotTranslated == <<"<not translated>">>

\* __init__: lines 47-55
Init ==
    /\ inited = FALSE
    /\ api = 0
    /\ pc = "idle"
    /\ req = NoRequest
    /\ mc_symbol = << >>
    /\ query_start = NoRequest.start
    /\ all_quote_history = << >>
    /\ calls = << >>
    /\ outputs = << >>
    /\ ret = NoResult
    /\ last_call = NoCall
    /\ replies = << >>
    /\ connected = FALSE
    /\ vt_symbol = << << >>, "" >>
    /\ translated = NotTranslated

Next ==
    \/ init
    \/ query_bar_history
    \/ query_loop
    \/ query_return
    \/ query_tick_history
    \/ call_returns

Spec == Init /\ [][Next]_vars

(***************************************************************************)
(* to_mc_symbol on its own: every input of a bounded set is translated     *)
(***************************************************************************)
Products == { <<"a">>, <<"r", "b">>, <<"M", "A">> }

\* year and month digits: every string of three or of four digits
DigitStrings == [1..3 -> DigitChars] \cup [1..4 -> DigitChars]

PerpetualSymbols ==
    { <<"r", "b", "H", "O", "T">>, <<"r", "b", "H", "O", "T", "/", "Q">>,
      <<"r", "b", "H", "O", "T", "/", "H">>,
      <<"r", "b", "0", "0", "0", "0", "0", "0">> }

OptionSymbols ==
    { <<"I", "O", "2", "4", "1", "0", "-", "C", "-", "4", "0", "0", "0">>,
      <<"r", "b", "2", "4", "1", "0", "P", "3", "0", "0", "0">>,
      <<"M", "A", "4", "1", "2", "C", "2", "5", "0", "0">>,
      <<"r", "b", "2", "4", "1", "0", "3", "0", "0", "0", "0">> }

InitSymbol ==
    /\ inited = FALSE
    /\ api = 0
    /\ pc = "idle"
    /\ req = NoRequest
    /\ mc_symbol = << >>
    /\ query_start = NoRequest.start
    /\ all_quote_history = << >>
    /\ calls = << >>
    /\ outputs = << >>
    /\ ret = NoResult
    /\ last_call = NoCall
    /\ replies = << >>
    /\ connected = FALSE
    /\ \/ \E p \in Products, ds \in DigitStrings, e \in EXCHANGE_MC2VT :
             vt_symbol = <<p \o ds, e>>
       \/ \E sy \in PerpetualSymbols \cup OptionSymbols, e \in EXCHANGE_MC2VT :
             vt_symbol = <<sy, e>>
    /\ translated = NotTranslated

\* a call of to_mc_symbol(vt_symbol)
translate ==
    /\ translated = NotTranslated
    /\ translated' = to_mc_symbol(vt_symbol)
    /\ UNCHANGED <<inited, api, pc, req, mc_symbol, query_start,
                   all_quote_history, calls, outputs, ret, last_call, replies,
                   connected, vt_symbol>>

SpecSymbol == InitSymbol /\ [][translate]_vars

(***************************************************************************)
(* Claims about to_mc_symbol (checked under SpecSymbol)                    *)
(***************************************************************************)
AllDigits(s) == \A k \in 1..Len(s) : isdigit(s[k])
NoDigits(s) == \A k \in 1..Len(s) : ~isdigit(s[k])

\* the symbol reads P + digits, with n digits, P free of digits, and is no
\* continuous contract
IsOutright(symbol, n) ==
    /\ Len(symbol) >= n
    /\ Len(symbol) <= 8
    /\ AllDigits(SubSeq(symbol, Len(symbol) - n + 1, Len(symbol)))
    /\ NoDigits(SubSeq(symbol, 1, Len(symbol) - n))
    /\ \A k \in 1..Len(PerpetualSuffixes) : ~EndsWith(symbol, PerpetualSuffixes[k])

ProductOf(symbol, n) == SubSeq(symbol, 1, Len(symbol) - n)
MonthOf(symbol) == SubSeq(symbol, Len(symbol) - 1, Len(symbol))

\* C3: for a supported futures exchange E and a symbol P+YY+MM (P free of
\* digits, length <= 8, not perpetual), to_mc_symbol returns
\* TC.F.<E>.<P>.20<YY><MM>, for all digits, YY = MM included.
C3_TwoDigitYearOutright ==
    ( /\ translated # NotTranslated
      /\ vt_symbol[2] \in {"CFFEX", "SHFE", "CZCE", "DCE", "INE", "GFEX"}
      /\ IsOutright(vt_symbol[1], 4) )
    => translated =
         TC_F \o ExchangeValue(vt_symbol[2]) \o Dot \o ProductOf(vt_symbol[1], 4)
              \o Dot \o <<"2", "0">>
              \o SubSeq(vt_symbol[1], Len(vt_symbol[1]) - 3, Len(vt_symbol[1]) - 2)
              \o MonthOf(vt_symbol[1])

\* C4: for a symbol P+Y+MM with a single year digit Y, to_mc_symbol returns
\* TC.F.<E>.<P>.202<Y><MM> when Y <= 5 and TC.F.<E>.<P>.201<Y><MM> when Y > 5.
C4_SingleDigitYear ==
    ( /\ translated # NotTranslated
      /\ vt_symbol[2] \in {"CFFEX", "SHFE", "CZCE", "DCE", "INE", "GFEX"}
      /\ IsOutright(vt_symbol[1], 3) )
    => LET Y == vt_symbol[1][Len(vt_symbol[1]) - 2]
       IN  translated =
             TC_F \o ExchangeValue(vt_symbol[2]) \o Dot
                  \o ProductOf(vt_symbol[1], 3) \o Dot \o <<"2", "0">>
                  \o (IF DigitVal(Y) <= 5 THEN <<"2">> ELSE <<"1">>)
                  \o <<Y>> \o MonthOf(vt_symbol[1])

\* C4 witness: MA712 on CZCE has been translated, to TC.F.CZCE.MA.201712
C4_Witness ==
    /\ vt_symbol = << <<"M", "A", "7", "1", "2">>, "CZCE" >>
    /\ translated = <<"T", "C", ".", "F", ".", "C", "Z", "C", "E", ".", "M", "A",
                      ".", "2", "0", "1", "7", "1", "2">>

(***************************************************************************)
(* Claims about the adapter (checked under Spec)                           *)
(***************************************************************************)
SixFuturesExchanges == {"CFFEX", "SHFE", "CZCE", "DCE", "INE", "GFEX"}

\* date.toordinal(): the days from 0001-01-01, counted from the calendar
RECURSIVE DaysBeforeMonth(_, _)
DaysBeforeMonth(y, mo) ==
    IF mo <= 1 THEN 0 ELSE DaysBeforeMonth(y, mo - 1) + DaysInMonth(y, mo - 1)

Ordinal(dt) ==
    365 * (dt.y - 1) + ((dt.y - 1) \div 4) - ((dt.y - 1) \div 100)
        + ((dt.y - 1) \div 400) + DaysBeforeMonth(dt.y, dt.mo) + dt.d

\* query_bar_history has returned, and its lazy init did not fail
QueryReturned ==
    /\ pc = "returned"
    /\ last_call.op = "query_bar_history"
    /\ last_call.outcome # "raises"

\* ... for a request the adapter serves, with start <= end
ServedRequest(intervals) ==
    /\ QueryReturned
    /\ req.exchange \in SixFuturesExchanges
    /\ req.interval \in intervals

RECURSIVE RowsOf(_)
\* the rows of all replies, in the order the replies came
RowsOf(rs) ==
    IF rs = << >> THEN << >>
    ELSE (IF Head(rs).none THEN << >> ELSE Head(rs).rows) \o RowsOf(Tail(rs))

\* C1: a MINUTE request with start <= end on a supported symbol issues one
\* getquotehistory call per calendar day from start's date to end's date
\* inclusive; the k-th window is [start + k days, start + (k+1) days], so
\* the windows come in increasing order, each starting where the previous
\* one ended, and none overlaps another.
C1_MinuteChunks ==
    (ServedRequest({"MINUTE"}) /\ DateTimeLE(req.start, req.end))
    => /\ Len(calls) = Ordinal(req.end) - Ordinal(req.start) + 1
       /\ \A k \in 1..Len(calls) :
             /\ calls[k].start = strftime(AddDays(req.start, k - 1))
             /\ calls[k].end = strftime(AddDays(req.start, k))
             /\ Ordinal(AddDays(req.start, k)) = Ordinal(req.start) + k
             /\ calls[k].start < calls[k].end
       /\ \A k \in 1..(Len(calls) - 1) :
             /\ calls[k + 1].start = calls[k].end
             /\ calls[k].start < calls[k + 1].start

\* C1 witness: a MINUTE request over three calendar days has returned after
\* three calls
C1_Witness ==
    /\ ServedRequest({"MINUTE"})
    /\ Ordinal(req.end) - Ordinal(req.start) = 2
    /\ Len(calls) = 3
    /\ ret.kind = "list"

\* C2: an HOUR or DAILY request (start <= end) on a supported symbol issues
\* exactly one getquotehistory call, whose keys are the request's start and
\* end as YYYYMMDDHH, whatever the length of the range.
C2_SingleCall ==
    (ServedRequest({"HOUR", "DAILY"}) /\ DateTimeLE(req.start, req.end))
    => /\ Len(calls) = 1
       /\ calls[1].start = strftime(req.start)
       /\ calls[1].end = strftime(req.end)

\* C2 witness: an HOUR request over three calendar days has returned after
\* one call
C2_Witness ==
    /\ ServedRequest({"HOUR"})
    /\ Ordinal(req.end) - Ordinal(req.start) = 2
    /\ Len(calls) = 1
    /\ ret.kind = "list"

\* C5: when the connection cannot be established, init returns False, and
\* the calling query_bar_history returns [] with a diagnostic and without a
\* getquotehistory call; no exception reaches the caller.
C5_ConnectionFailureIsSoft ==
    (pc = "returned" /\ last_call.attempted /\ last_call.outcome = "raises")
    => /\ ret.kind # "exception"
       /\ last_call.op = "init" => ret = ReturnBool(FALSE)
       /\ last_call.op = "query_bar_history"
             => ret = ReturnList(<< >>) /\ Len(outputs) >= 1 /\ calls = << >>

\* C6: if every chunk of a served request returned no rows, the query
\* returns [] and emits exactly one diagnostic, naming the symbol and the
\* start-end range; if some chunk returned rows, the result is not empty
\* and nothing is emitted.
C6_AllEmpty ==
    ServedRequest({"MINUTE", "HOUR", "DAILY"})
    => IF RowsOf(replies) = << >>
       THEN /\ ret = ReturnList(<< >>)
            /\ outputs = << Message("history failed",
                                    <<req.symbol, req.start, req.end>>) >>
       ELSE /\ ret.kind = "list"
            /\ ret.bars # << >>
            /\ outputs = << >>

\* C6 witness: three chunks were queried, none returned a row, and the
\* query has returned [] with its one diagnostic
C6_Witness ==
    /\ ServedRequest({"MINUTE"})
    /\ Len(replies) = 3
    /\ RowsOf(replies) = << >>
    /\ Len(outputs) = 1
    /\ ret = ReturnList(<< >>)

\* C7: every bar of a DAILY request is at 00:00:00 of its row's date, in
\* Asia/Shanghai, with nothing subtracted, whatever the row's time of day.
C7_DailyMidnight ==
    ServedRequest({"DAILY"})
    => /\ Len(ret.bars) = Len(RowsOf(replies))
       /\ \A k \in 1..Len(ret.bars) :
             ret.bars[k].datetime =
                 [RowsOf(replies)[k].DateTime
                     EXCEPT !.H = 0, !.M = 0, !.S = 0, !.tzinfo = "Asia/Shanghai"]

\* C8: for an exchange outside the six futures exchanges, to_mc_symbol
\* returns the empty result, and query_bar_history returns [], emits
\* exactly one diagnostic and issues no getquotehistory call.
C8_UnsupportedExchange ==
    /\ \A v \in QuerySymbols, sy \in PerpetualSymbols \cup OptionSymbols,
            e \in EXCHANGE_MC2VT \ SixFuturesExchanges :
            to_mc_symbol(<<v[1], e>>) = << >> /\ to_mc_symbol(<<sy, e>>) = << >>
    /\ (QueryReturned /\ req.exchange \notin SixFuturesExchanges)
       => /\ ret = ReturnList(<< >>)
          /\ Len(outputs) = 1
          /\ calls = << >>
          /\ replies = << >>

\* C8 witness: a query of 600000 on SSE has returned [] with one diagnostic
C8_Witness ==
    /\ QueryReturned
    /\ req.exchange = "SSE"
    /\ ret = ReturnList(<< >>)
    /\ Len(outputs) = 1

\* C9: a call of init or query_bar_history attempts to connect if and only
\* if no earlier attempt has succeeded; once connected, the adapter stays
\* initialized with the same client and init returns True; after a failed
\* attempt the adapter is still not initialized (so the next call attempts
\* again).
C9_LazyInitOnce ==
    (pc = "returned" /\ last_call.op \in {"init", "query_bar_history"})
    => /\ last_call.attempted <=> ~last_call.connected_before
       /\ last_call.connected_before
             => /\ inited /\ connected
                /\ api = last_call.api_before
                /\ last_call.op = "init" => ret = ReturnBool(TRUE)
       /\ (last_call.attempted /\ last_call.outcome = "raises")
             => ~inited /\ ~connected
       /\ inited <=> connected

\* C9 witness: a first attempt failed, and this call attempted again and
\* connected
C9_Witness ==
    /\ pc = "returned"
    /\ last_call.op = "query_bar_history"
    /\ last_call.attempted
    /\ last_call.api_before >= 1
    /\ last_call.outcome = "connected"
    /\ inited

\* C10: a query that got rows returns one bar per row of all chunk replies,
\* chunk by chunk in the order issued and row by row in the order given,
\* nothing sorted, dropped or merged, also when other chunks were empty.
C10_BarsInOrder ==
    (ServedRequest({"MINUTE", "HOUR", "DAILY"}) /\ RowsOf(replies) # << >>)
    => /\ ret.kind = "list"
       /\ Len(ret.bars) = Len(RowsOf(replies))
       /\ \A k \in 1..Len(ret.bars) :
             LET bar == ret.bars[k]
                 row == RowsOf(replies)[k]
             IN  /\ bar.open_price = row.Open
                 /\ bar.high_price = row.High
                 /\ bar.low_price = row.Low
                 /\ bar.close_price = row.Close
                 /\ bar.volume = row.Volume
                 /\ bar.open_interest = row.OpenInterest

\* C10 witness: an empty first chunk, then a chunk of one row and a chunk
\* of two rows out of time order: three bars, the last two as given
C10_Witness ==
    /\ ServedRequest({"MINUTE"})
    /\ Len(replies) = 3
    /\ RowsOf(<<replies[1]>>) = << >>
    /\ replies[2].rows = <<RowA>>
    /\ replies[3].rows = <<RowB, RowA>>
    /\ Len(ret.bars) = 3
    /\ ret.bars[2].close_price = RowB.Close

====
